---- MODULE Spec2Model ----
(***************************************************************************)
(* A model of ez-err: the error value with its call-site trace             *)
(* (src/src/core.rs) and the bounds-checked slice access operations        *)
(* (src/src/slice_ext.rs).                                                 *)
(*                                                                         *)
(* A Result is Ok(v) or Err(e); an EzError is a record of its ErrorType    *)
(* and its frames, a sequence of ConstLocation.  Strings are TLA+ strings, *)
(* built with \o as the code builds them with push_str and format!.        *)
(* usize is modelled with a reduced width: its values are 0..USIZE_MAX and *)
(* its addition wraps modulo USIZE_MAX + 1.                                *)
(***************************************************************************)
EXTENDS Integers, Sequences, FiniteSets, TLC

\* ---------------------------------------------------------------- bounds
\* The largest usize of the model (usize::MAX of the modelled platform).
USIZE_MAX == 5
\* The longest slice.
MaxLen == 3
\* The longest location sequence an error value is grown to.
MaxFrames == 3
\* The most loc calls applied to one success.
MaxOkLocs == 1

Usize == 0..USIZE_MAX
\* The slices of the model are the prefixes of Base: the slice of the doc
\* example of eget, continued.
Base == <<10, 40, 30, 20, 50>>
\* The values written through a mutable reference (the doc example of eget_mut).
Written == {42}
Elems == {Base[k] : k \in 1..Len(Base)} \cup Written

\* ------------------------------------------------- core.rs: the data model
Ok(v) == [ok |-> TRUE, v |-> v]
Err(e) == [ok |-> FALSE, e |-> e]
Some(v) == [some |-> TRUE, v |-> v]
None == [some |-> FALSE]

Internal(msg) == [tag |-> "Internal", msg |-> msg]
NoneOption == [tag |-> "NoneOption"]
IndexOutOfBounds(idx, len) == [tag |-> "IndexOutOfBounds", idx |-> idx, len |-> len]
RangeOutOfBounds(start, end, len) ==
    [tag |-> "RangeOutOfBounds", start |-> start, end |-> end, len |-> len]
InvalidRange == [tag |-> "InvalidRange"]
Message(msg) == [tag |-> "Message", msg |-> msg]
Custom(code, name, message) ==
    [tag |-> "Custom", code |-> code, name |-> name, message |-> message]

ConstLocation_new(file, line, column) ==
    [file |-> file, line |-> line, column |-> column]

\* flc!() invoked at line:column of file (stack-trace collection enabled).
flc(file, line, column) == ConstLocation_new(file, line, column)

\* flc!() at a call site of slice_ext.rs.
here(line, column) == flc("src/slice_ext.rs", line, column)

EzError_new(ty) == [ty |-> ty, frames |-> <<>>]
message(msg) == EzError_new(Message(msg))
custom(code, name, msg) == EzError_new(Custom(code, name, msg))
\* add_frame that puts the location in front of the ones recorded.
add_frame_front(self, loc) == [self EXCEPT !.frames = <<loc>> \o self.frames]
add_frame(self, loc) == [self EXCEPT !.frames = Append(self.frames, loc)]
\* with that takes the other error's type along with its locations.
with_other_type(self, other) ==
    [ty |-> other.ty, frames |-> self.frames \o other.frames]
\* with that puts the other error's locations first.
with_other_first(self, other) == [self EXCEPT !.frames = other.frames \o self.frames]
with(self, other) == [self EXCEPT !.frames = self.frames \o other.frames]
ty(self) == self.ty
frames(self) == self.frames

\* impl<E: Display> From<E> for EzError; a foreign error is modelled by the
\* record of what it renders to.
Display(e) == e.text
from(err) == EzError_new(Internal("" \o Display(err)))

format(self) ==
    CASE self.tag = "Internal" -> self.msg
      [] self.tag = "NoneOption" -> "Option was none"
      [] self.tag = "IndexOutOfBounds" ->
            "Index " \o ToString(self.idx) \o " was outside of the range 0.."
                \o ToString(self.len)
      [] self.tag = "RangeOutOfBounds" ->
            "Range " \o ToString(self.start) \o ".." \o ToString(self.end)
                \o " was larger than the array range 0.." \o ToString(self.len)
      [] self.tag = "InvalidRange" ->
            "The provided range was invalid (end < start or X..=usize::MAX)"
      [] self.tag = "Message" -> self.msg
      [] self.tag = "Custom" -> self.message

name(self) ==
    CASE self.tag = "Internal" -> "WrappedInternal"
      [] self.tag = "NoneOption" -> "NoneOption"
      [] self.tag = "IndexOutOfBounds" -> "IndexOutOfBounds"
      [] self.tag = "RangeOutOfBounds" -> "RangeOutOfBounds"
      [] self.tag = "InvalidRange" -> "InvalidRange"
      [] self.tag = "Message" -> "Message"
      [] self.tag = "Custom" -> self.name

\* impl LocData<T> for Result<T>
loc_Result(self, loc) ==
    IF ~self.ok THEN Err(add_frame(self.e, loc)) ELSE self

\* loc for std::result::Result that converts the error and records nothing.
loc_StdResult_no_frame(self, loc) ==
    IF self.ok THEN Ok(self.v) ELSE Err(from(self.e))

\* impl LocData<T> for std::result::Result<T, E>
loc_StdResult(self, loc) ==
    IF self.ok THEN Ok(self.v) ELSE Err(add_frame(from(self.e), loc))

\* loc for Option that takes every option for None.
loc_Option_always_none(self, loc) ==
    Err(add_frame(EzError_new(NoneOption), loc))

\* impl LocData<T> for Option<T>
loc_Option(self, loc) ==
    IF self.some THEN Ok(self.v) ELSE Err(add_frame(EzError_new(NoneOption), loc))

\* --------------------------------------- slice_ext.rs: the access layer
\* A slice is a sequence; position i of the code is element i + 1 of it.
\* &self[index]: the reference to one element.
get_unchecked(self, index) == [pos |-> index, val |-> self[index + 1]]
\* &self[start..end]: the subslice.
get_unchecked_range(self, start, end) ==
    [start |-> start, elems |-> SubSeq(self, start + 1, end)]
\* e + 1 in usize: the sum wraps at the width of usize (a release build; a
\* build with overflow checks panics on the same addition).
add1(e) == (e + 1) % (USIZE_MAX + 1)

\* impl SliceExt<usize, T> for [T]
eget_usize(self, index) ==
    IF index < Len(self)
    THEN Ok(get_unchecked(self, index))
    ELSE loc_Result(Err(EzError_new(IndexOutOfBounds(index, Len(self)))), here(63, 83))

\* eget for usize on &'a [T] with the error's two numbers exchanged.
eget_usize_ref_swapped(self, index) ==
    IF index < Len(self)
    THEN Ok(get_unchecked(self, index))
    ELSE loc_Result(Err(EzError_new(IndexOutOfBounds(Len(self), index))), here(74, 83))

\* impl SliceExt<usize, T> for &'a [T]
eget_usize_ref(self, index) ==
    IF index < Len(self)
    THEN Ok(get_unchecked(self, index))
    ELSE loc_Result(Err(EzError_new(IndexOutOfBounds(index, Len(self)))), here(74, 83))

\* impl SliceExtMut<usize, T> for [T]
eget_mut_usize(self, index) ==
    IF index < Len(self)
    THEN Ok(get_unchecked(self, index))
    ELSE loc_Result(Err(EzError_new(IndexOutOfBounds(index, Len(self)))), here(85, 83))

\* impl SliceExtMut<usize, T> for &'a mut [T]
eget_mut_usize_ref(self, index) ==
    IF index < Len(self)
    THEN Ok(get_unchecked(self, index))
    ELSE loc_Result(Err(EzError_new(IndexOutOfBounds(index, Len(self)))), here(96, 83))

\* eget for ops::Range with the test of the end off by one: a range that
\* ends at the end of the slice is refused.
eget_Range_end_excluded(self, start, end) ==
    IF start > end
    THEN loc_Result(Err(EzError_new(InvalidRange)), here(105, 60))
    ELSE IF start >= Len(self) \/ end >= Len(self)
    THEN loc_Result(Err(EzError_new(RangeOutOfBounds(start, end, Len(self)))),
                    here(112, 18))
    ELSE Ok(get_unchecked_range(self, start, end))

\* eget for ops::Range that lets the start be the length of the slice: the
\* empty range at the end is accepted.
eget_Range_start_at_len(self, start, end) ==
    IF start > end
    THEN loc_Result(Err(EzError_new(InvalidRange)), here(105, 60))
    ELSE IF start > Len(self) \/ end > Len(self)
    THEN loc_Result(Err(EzError_new(RangeOutOfBounds(start, end, Len(self)))),
                    here(112, 18))
    ELSE Ok(get_unchecked_range(self, start, end))

\* eget for ops::Range with the two tests in the other order: the bounds
\* are looked at before the order of start and end.
eget_Range_bounds_first(self, start, end) ==
    IF start >= Len(self) \/ end > Len(self)
    THEN loc_Result(Err(EzError_new(RangeOutOfBounds(start, end, Len(self)))),
                    here(112, 18))
    ELSE IF start > end
    THEN loc_Result(Err(EzError_new(InvalidRange)), here(105, 60))
    ELSE Ok(get_unchecked_range(self, start, end))

\* impl SliceExt<ops::Range<usize>, [T]> for [T]
eget_Range(self, start, end) ==
    IF start > end
    THEN loc_Result(Err(EzError_new(InvalidRange)), here(105, 60))
    ELSE IF start >= Len(self) \/ end > Len(self)
    THEN loc_Result(Err(EzError_new(RangeOutOfBounds(start, end, Len(self)))),
                    here(112, 18))
    ELSE Ok(get_unchecked_range(self, start, end))

\* impl SliceExt<ops::Range<usize>, [T]> for &'a [T]
eget_Range_ref(self, start, end) ==
    IF start > end
    THEN loc_Result(Err(EzError_new(InvalidRange)), here(123, 60))
    ELSE IF start >= Len(self) \/ end > Len(self)
    THEN loc_Result(Err(EzError_new(RangeOutOfBounds(start, end, Len(self)))),
                    here(130, 18))
    ELSE Ok(get_unchecked_range(self, start, end))

\* impl SliceExtMut<ops::Range<usize>, [T]> for [T]
eget_mut_Range(self, start, end) ==
    IF start > end
    THEN loc_Result(Err(EzError_new(InvalidRange)), here(141, 60))
    ELSE IF start >= Len(self) \/ end > Len(self)
    THEN loc_Result(Err(EzError_new(RangeOutOfBounds(start, end, Len(self)))),
                    here(148, 18))
    ELSE Ok(get_unchecked_range(self, start, end))

\* impl SliceExtMut<ops::Range<usize>, [T]> for &'a mut [T]
eget_mut_Range_ref(self, start, end) ==
    IF start > end
    THEN loc_Result(Err(EzError_new(InvalidRange)), here(159, 60))
    ELSE IF start >= Len(self) \/ end > Len(self)
    THEN loc_Result(Err(EzError_new(RangeOutOfBounds(start, end, Len(self)))),
                    here(166, 18))
    ELSE Ok(get_unchecked_range(self, start, end))

\* impl SliceExt<ops::RangeTo<usize>, [T]> for [T]
eget_RangeTo(self, end) == loc_Result(eget_Range(self, 0, end), here(176, 37))
\* impl SliceExtMut<ops::RangeTo<usize>, [T]> for [T]
eget_mut_RangeTo(self, end) == loc_Result(eget_mut_Range(self, 0, end), here(190, 41))

\* impl SliceExt<ops::RangeFrom<usize>, [T]> for [T]
eget_RangeFrom(self, start) ==
    loc_Result(eget_Range(self, start, Len(self)), here(204, 48))
\* impl SliceExtMut<ops::RangeFrom<usize>, [T]> for [T]
eget_mut_RangeFrom(self, start) ==
    loc_Result(eget_mut_Range(self, start, Len(self)), here(218, 52))

\* eget for ops::RangeFull by way of the bounded range 0..len.
eget_RangeFull_bounded(self) == eget_Range(self, 0, Len(self))

\* impl SliceExt<ops::RangeFull, [T]> for [T]
eget_RangeFull(self) == Ok([start |-> 0, elems |-> self])
\* impl SliceExtMut<ops::RangeFull, [T]> for [T]
eget_mut_RangeFull(self) == Ok([start |-> 0, elems |-> self])

\* eget for ops::RangeInclusive without the test for usize::MAX: the end is
\* incremented whatever it is.
eget_RangeInclusive_unguarded(self, start, end) ==
    eget_Range(self, start, add1(end))

\* impl SliceExt<ops::RangeInclusive<usize>, [T]> for [T]
eget_RangeInclusive(self, start, end) ==
    IF end = USIZE_MAX
    THEN loc_Result(Err(EzError_new(InvalidRange)), here(261, 60))
    ELSE eget_Range(self, start, add1(end))
\* impl SliceExtMut<ops::RangeInclusive<usize>, [T]> for [T]
eget_mut_RangeInclusive(self, start, end) ==
    IF end = USIZE_MAX
    THEN loc_Result(Err(EzError_new(InvalidRange)), here(283, 60))
    ELSE eget_mut_Range(self, start, add1(end))

\* eget for ops::RangeToInclusive that passes its end on as an excluded one.
eget_RangeToInclusive_excluded(self, end) ==
    loc_Result(eget_Range(self, 0, end), here(304, 38))

\* impl SliceExt<ops::RangeToInclusive<usize>, [T]> for [T]
eget_RangeToInclusive(self, end) ==
    loc_Result(eget_RangeInclusive(self, 0, end), here(304, 38))
\* impl SliceExtMut<ops::RangeToInclusive<usize>, [T]> for [T]
eget_mut_RangeToInclusive(self, end) ==
    loc_Result(eget_mut_RangeInclusive(self, 0, end), here(318, 42))

\* ------------------------------------------- core.rs: terminal handling
\* The trace text built by the loop over e.frames.
RECURSIVE trace_lines(_)
trace_lines(fs) ==
    IF fs = <<>> THEN ""
    ELSE Head(fs).file \o ":" \o ToString(Head(fs).line) \o ":"
            \o ToString(Head(fs).column) \o "\n" \o trace_lines(Tail(fs))

RECURSIVE Reverse(_)
Reverse(q) == IF q = <<>> THEN <<>> ELSE Append(Reverse(Tail(q)), Head(q))

\* inner that walks the frames from the last to the first.
inner_last_first(e) ==
    LET trace == "Stacktrace:\n" \o trace_lines(Reverse(e.frames))
        nm == name(e.ty)
        msg == format(e.ty)
    IN "Error " \o nm \o ": " \o msg \o "\n\n" \o trace \o "\n"

\* fn inner(e: EzError): the text handed to println!, with the line end
\* println! adds.
inner(e) ==
    LET trace == "Stacktrace:\n" \o trace_lines(e.frames)
        nm == name(e.ty)
        msg == format(e.ty)
    IN "Error " \o nm \o ": " \o msg \o "\n\n" \o trace \o "\n"

\* handle that prints nothing for an error.
handle_silent(self, sink) ==
    IF self.ok
    THEN [ret |-> Some(self.v), sink |-> sink]
    ELSE [ret |-> None, sink |-> sink]

\* Handle::handle for Result<T>; sink is what was printed so far.  The
\* result is the returned Option and the sink afterwards.
handle(self, sink) ==
    IF self.ok
    THEN [ret |-> Some(self.v), sink |-> sink]
    ELSE [ret |-> None, sink |-> Append(sink, inner(self.e))]

\* pub fn handle<F, R>(func: F) -> Option<R>; r is what func() returns.
handle_fn(r, sink) == handle(r, sink)

\* Handle::handle_or_panic, the match on what self.handle() returned:
\* TRUE when it panics.
handle_or_panic_panics(handled) == ~handled.some

\* ------------------------------------------------------------------ bail!
\* ::std::format_args!(..).to_string(): the literal with the argument's
\* Display text in place of the {}.
format_args(a) == IF a.hasArg THEN a.lit \o ToString(a.arg) ELSE a.lit

returns_early_never(r) == FALSE

\* The ? operator on r: TRUE when the enclosing operation returns r's error
\* at once, FALSE when it goes on with r's value.
returns_early(r) == ~r.ok

\* The expression bail! expands to, before its ?; site is where bail! was
\* invoked, which is what flc!() inside the macro expands to.
bail(a, site) == loc_Result(Err(message(format_args(a))), site)

\* ------------------------------------------------------ the state machine
\* The call sites of the program that uses the library (the two
\* propagation points of the crate documentation's example).
Locs == { flc("src/main.rs", 31, 55), flc("src/main.rs", 33, 42) }
\* Foreign errors, each with the text its Display renders.
Foreign == { [kind |-> "NotFound", text |-> "entity not found"],
             [kind |-> "ParseInt", text |-> "invalid digit found in string"] }
\* The error types a program constructs directly.
Constructed ==
    { Message("test"), Custom(7, "MyError", "custom failure"),
      Internal("wrapped"), NoneOption, InvalidRange,
      IndexOutOfBounds(3, 3), RangeOutOfBounds(0, 4, 3) }
Unit == [unit |-> TRUE]
Values == {Unit} \cup {[val |-> x] : x \in {10, 40}}

\* The second operand of a merge: an error of another kind with its own
\* location history, of each length up to two.
OtherLocs == << flc("src/other.rs", 12, 27), flc("src/other.rs", 20, 9) >>
Others == { [ty |-> Message("secondary"), frames |-> SubSeq(OtherLocs, 1, k)] :
              k \in 0..2 }

\* The arguments of a bail!: a literal, or a literal with one {} and the
\* value formatted into it.
BailArgs == { [lit |-> "bailed", hasArg |-> FALSE, arg |-> 0],
              [lit |-> "bad index ", hasArg |-> TRUE, arg |-> 3] }
\* Where bail! is invoked: the line and column of the invocation in
\* tests::correct_bail.
BailSites == { flc("src/core.rs", 349, 13) }

Impls == {"slice", "ref"}
Muts == {FALSE, TRUE}

VARIABLES
    arr,    \* the slice the access operations work on
    res,    \* the Result in flight
    out,    \* the sink: the texts printed so far
    ret,    \* what the terminal handler returned
    pc,     \* "start" (no Result yet), "run" (a Result in flight), "hop" (in
            \* handle_or_panic, after self.handle()), "handled" (handle
            \* returned), "returned" (handle_or_panic returned), "panicked",
            \* "after" (the enclosing operation continues past a ?)
    origin, \* the operation, with its arguments, that made the Result in
            \* flight: the expression that produced it, or the last merge
    sites   \* the locations loc was called with on it since then, in call order

vars == <<arr, res, out, ret, pc, origin, sites>>

Init ==
    /\ arr \in {SubSeq(Base, 1, n) : n \in 0..MaxLen}
    /\ res = Ok(Unit)
    /\ out = <<>>
    /\ ret = None
    /\ pc = "start"
    /\ origin = [op |-> "init"]
    /\ sites = <<>>

\* An expression of the program yields a Result: the step from "start" to
\* "run", which the producing operation completes with the Result (res') and
\* with what produced it (origin').
Produce ==
    /\ pc = "start"
    /\ sites' = <<>>
    /\ pc' = "run"
    /\ UNCHANGED <<arr, out, ret>>

\* v.eget(i) / v.eget_mut(i)
Eget_usize ==
    \E impl \in Impls, m \in Muts, i \in Usize :
        /\ Produce
        /\ res' = CASE ~m /\ impl = "slice" -> eget_usize(arr, i)
                  [] ~m /\ impl = "ref" -> eget_usize_ref(arr, i)
                  [] m /\ impl = "slice" -> eget_mut_usize(arr, i)
                  [] m /\ impl = "ref" -> eget_mut_usize_ref(arr, i)
        /\ origin' = [op |-> "eget_usize", impl |-> impl, m |-> m, index |-> i]

\* v.eget(s..e) / v.eget_mut(s..e)
Eget_Range ==
    \E impl \in Impls, m \in Muts, s \in Usize, e \in Usize :
        /\ Produce
        /\ res' = CASE ~m /\ impl = "slice" -> eget_Range(arr, s, e)
                  [] ~m /\ impl = "ref" -> eget_Range_ref(arr, s, e)
                  [] m /\ impl = "slice" -> eget_mut_Range(arr, s, e)
                  [] m /\ impl = "ref" -> eget_mut_Range_ref(arr, s, e)
        /\ origin' = [op |-> "eget_Range", impl |-> impl, m |-> m, start |-> s, end |-> e]

\* v.eget(..e) / v.eget_mut(..e)
Eget_RangeTo ==
    \E m \in Muts, e \in Usize :
        /\ Produce
        /\ res' = IF m THEN eget_mut_RangeTo(arr, e) ELSE eget_RangeTo(arr, e)
        /\ origin' = [op |-> "eget_RangeTo", m |-> m, end |-> e]

\* v.eget(s..) / v.eget_mut(s..)
Eget_RangeFrom ==
    \E m \in Muts, s \in Usize :
        /\ Produce
        /\ res' = IF m THEN eget_mut_RangeFrom(arr, s) ELSE eget_RangeFrom(arr, s)
        /\ origin' = [op |-> "eget_RangeFrom", m |-> m, start |-> s]

\* v.eget(..) / v.eget_mut(..)
Eget_RangeFull ==
    \E m \in Muts :
        /\ Produce
        /\ res' = IF m THEN eget_mut_RangeFull(arr) ELSE eget_RangeFull(arr)
        /\ origin' = [op |-> "eget_RangeFull", m |-> m]

\* v.eget(s..=e) / v.eget_mut(s..=e)
Eget_RangeInclusive ==
    \E m \in Muts, s \in Usize, e \in Usize :
        /\ Produce
        /\ res' = IF m THEN eget_mut_RangeInclusive(arr, s, e)
                     ELSE eget_RangeInclusive(arr, s, e)
        /\ origin' = [op |-> "eget_RangeInclusive", m |-> m, start |-> s, end |-> e]

\* v.eget(..=e) / v.eget_mut(..=e)
Eget_RangeToInclusive ==
    \E m \in Muts, e \in Usize :
        /\ Produce
        /\ res' = IF m THEN eget_mut_RangeToInclusive(arr, e)
                     ELSE eget_RangeToInclusive(arr, e)
        /\ origin' = [op |-> "eget_RangeToInclusive", m |-> m, end |-> e]

\* if let Ok(elem) = x.eget_mut(i) { *elem = v; }: the write through the
\* reference eget_mut returned.
Assign ==
    \E v \in Written :
        /\ pc = "run"
        /\ origin.op = "eget_usize" /\ origin.m /\ res.ok /\ sites = <<>>
        /\ arr' = [arr EXCEPT ![res.v.pos + 1] = v]
        /\ res' = Ok([res.v EXCEPT !.val = v])
        /\ origin' = [op |-> "assign", index |-> res.v.pos, val |-> v]
        /\ UNCHANGED <<out, ret, pc, sites>>

\* Err(EzError::new(ty)), Err(EzError::message(..)), Err(EzError::custom(..))
Construct ==
    \E t \in Constructed :
        /\ Produce
        /\ res' = Err(CASE t.tag = "Message" -> message(t.msg)
                      [] t.tag = "Custom" -> custom(t.code, t.name, t.message)
                      [] OTHER -> EzError_new(t))
        /\ origin' = [op |-> "new", ty |-> t]

\* Ok(v)
Succeed ==
    \E v \in Values :
        /\ Produce
        /\ res' = Ok(v)
        /\ origin' = [op |-> "ok", v |-> v]

\* bail!(args) in an enclosing operation: the expression, then its ?.
Bail ==
    \E a \in BailArgs, l \in BailSites :
        /\ pc = "start"
        /\ res' = bail(a, l)
        /\ origin' = [op |-> "bail", args |-> a, loc |-> l]
        /\ sites' = <<>>
        /\ pc' = IF returns_early(bail(a, l)) THEN "run" ELSE "after"
        /\ UNCHANGED <<arr, out, ret>>

\* xxx? on the Result in flight, inside an enclosing operation: on Err the
\* operation returns it, on Ok the operation goes on.
Question ==
    /\ pc = "run"
    /\ pc' = IF returns_early(res) THEN "run" ELSE "after"
    /\ UNCHANGED <<arr, res, out, ret, origin, sites>>

\* The code after the ? in the enclosing operation, which ends in Ok(()).
After ==
    /\ pc = "after"
    /\ res' = Ok(Unit)
    /\ origin' = [op |-> "after"]
    /\ sites' = <<>>
    /\ pc' = "run"
    /\ UNCHANGED <<arr, out, ret>>

\* The Result in flight has room for k more locations: a bound of the model.
Room(r, k) ==
    IF r.ok THEN Len(sites) + k <= MaxOkLocs ELSE Len(r.e.frames) + k <= MaxFrames

\* res.loc(flc!()) on a Result<T>
Loc ==
    \E l \in Locs :
        /\ pc = "run"
        /\ Room(res, 1)
        /\ res' = loc_Result(res, l)
        /\ sites' = Append(sites, l)
        /\ UNCHANGED <<arr, out, ret, pc, origin>>

\* r.loc(flc!()) on a std::result::Result<T, E>
LocForeign ==
    \E l \in Locs, r \in {Ok(v) : v \in Values} \cup {Err(e) : e \in Foreign} :
        /\ Produce
        /\ res' = loc_StdResult(r, l)
        /\ origin' = [op |-> "loc_foreign", loc |-> l, arg |-> r]

\* o.loc(flc!()) on an Option<T>
LocOption ==
    \E l \in Locs, o \in {Some(v) : v \in Values} \cup {None} :
        /\ Produce
        /\ res' = loc_Option(o, l)
        /\ origin' = [op |-> "loc_option", loc |-> l, arg |-> o]

\* a.with(b) on the error in flight; a is remembered as it was.
With ==
    \E other \in Others :
        /\ pc = "run"
        /\ ~res.ok
        /\ origin.op # "with"
        /\ Room(res, Len(other.frames))
        /\ res' = Err(with(res.e, other))
        /\ origin' = [op |-> "with", self |-> res.e, other |-> other]
        /\ sites' = <<>>
        /\ UNCHANGED <<arr, out, ret, pc>>

\* handle(|| res), which is res.handle()
Handle ==
    LET h == handle_fn(res, out)
    IN /\ pc = "run"
       /\ ret' = h.ret
       /\ out' = h.sink
       /\ pc' = "handled"
       /\ UNCHANGED <<arr, res, origin, sites>>

\* res.handle_or_panic(): the call self.handle()
HandleOrPanicCall ==
    LET h == handle(res, out)
    IN /\ pc = "run"
       /\ ret' = h.ret
       /\ out' = h.sink
       /\ pc' = "hop"
       /\ UNCHANGED <<arr, res, origin, sites>>

\* res.handle_or_panic(): the match, Some(v) => v, None => panic!()
HandleOrPanicMatch ==
    /\ pc = "hop"
    /\ IF handle_or_panic_panics(ret)
       THEN pc' = "panicked" /\ ret' = ret
       ELSE pc' = "returned" /\ ret' = ret.v
    /\ UNCHANGED <<arr, res, out, origin, sites>>

Next ==
    \/ Eget_usize
    \/ Eget_Range
    \/ Eget_RangeTo
    \/ Eget_RangeFrom
    \/ Eget_RangeFull
    \/ Eget_RangeInclusive
    \/ Eget_RangeToInclusive
    \/ Assign
    \/ Construct
    \/ Succeed
    \/ Bail
    \/ Question
    \/ After
    \/ Loc
    \/ LocForeign
    \/ LocOption
    \/ With
    \/ Handle
    \/ HandleOrPanicCall
    \/ HandleOrPanicMatch

Spec == Init /\ [][Next]_vars

\* ------------------------------------- the build with feature no_stacktrace
\* What the source says under #[cfg(feature = "no_stacktrace")]. The error
\* has no frames field in this build; add_frame and with, which have no
\* cfg branch and name that field, are left out of it.

\* flc!(): every location is the empty one.
flc_no_stacktrace == ConstLocation_new("", 0, 0)

\* EzError::new: EzErrorInner { ty }
EzError_new_no_stacktrace(type) == [ty |-> type]

\* loc on a std::result::Result<T, E>: the body is `self`.
loc_StdResult_no_stacktrace(self, loc) == self

\* loc on an Option<T>: the body is `self`.
loc_Option_no_stacktrace(self, loc) == self

\* Handle::handle, fn inner(e): the trace is "".
inner_no_stacktrace(e) ==
    "Error " \o name(e.ty) \o ": " \o format(e.ty) \o "\n\n" \o ""

\* Handle::handle
handle_no_stacktrace(self, sink) ==
    IF self.ok
    THEN [ret |-> Some(self.v), sink |-> sink]
    ELSE [ret |-> None, sink |-> Append(sink, inner_no_stacktrace(self.e))]

\* r is a value Handle is implemented for: a Result<T>.
IsResult(r) ==
    IF "ok" \in DOMAIN r
    THEN IF r.ok THEN TRUE ELSE "ty" \in DOMAIN r.e
    ELSE FALSE

Construct_no_stacktrace ==
    \E t \in Constructed :
        /\ Produce
        /\ res' = Err(EzError_new_no_stacktrace(t))
        /\ origin' = [op |-> "new", ty |-> t]

LocForeign_no_stacktrace ==
    \E r \in {Ok(v) : v \in Values} \cup {Err(e) : e \in Foreign} :
        /\ Produce
        /\ res' = loc_StdResult_no_stacktrace(r, flc_no_stacktrace)
        /\ origin' = [op |-> "loc_foreign", loc |-> flc_no_stacktrace, arg |-> r]

LocOption_no_stacktrace ==
    \E o \in {Some(v) : v \in Values} \cup {None} :
        /\ Produce
        /\ res' = loc_Option_no_stacktrace(o, flc_no_stacktrace)
        /\ origin' = [op |-> "loc_option", loc |-> flc_no_stacktrace, arg |-> o]

Handle_no_stacktrace ==
    /\ pc = "run"
    /\ IsResult(res)
    /\ LET h == handle_no_stacktrace(res, out)
       IN ret' = h.ret /\ out' = h.sink
    /\ pc' = "handled"
    /\ UNCHANGED <<arr, res, origin, sites>>

HandleOrPanicCall_no_stacktrace ==
    /\ pc = "run"
    /\ IsResult(res)
    /\ LET h == handle_no_stacktrace(res, out)
       IN ret' = h.ret /\ out' = h.sink
    /\ pc' = "hop"
    /\ UNCHANGED <<arr, res, origin, sites>>

NextNoStacktrace ==
    \/ Construct_no_stacktrace
    \/ Succeed
    \/ LocForeign_no_stacktrace
    \/ LocOption_no_stacktrace
    \/ Handle_no_stacktrace
    \/ HandleOrPanicCall_no_stacktrace
    \/ HandleOrPanicMatch

SpecNoStacktrace == Init /\ [][NextNoStacktrace]_vars

\* ------------------------------------------------------------ properties
\* res is what the operation op returned, as it returned it.
Direct(op) == pc # "start" /\ origin.op = op /\ sites = <<>>

\* v is the view of the positions start .. end - 1 of self.
IsSubslice(v, self, start, end) ==
    /\ v.start = start
    /\ Len(v.elems) = end - start
    /\ \A k \in 1..(end - start) : v.elems[k] = self[start + k]

\* C1, as claimed: for every 0 <= s <= e <= n, s == e == n included, eget(s..e)
\* and eget_mut(s..e) succeed and return the subsequence of length e - s that
\* starts at s.
C1_AllRangesWithinSucceed ==
    (Direct("eget_Range") /\ origin.start <= origin.end /\ origin.end <= Len(arr))
        => (res.ok /\ IsSubslice(res.v, arr, origin.start, origin.end))

\* C1, amended: for every 0 <= s <= e <= n with s < n, eget(s..e) and
\* eget_mut(s..e) succeed and return the subsequence of length e - s that
\* starts at s.
C1_RangesWithinSucceed ==
    (Direct("eget_Range") /\ origin.start <= origin.end /\ origin.end <= Len(arr)
        /\ origin.start < Len(arr))
        => (res.ok /\ IsSubslice(res.v, arr, origin.start, origin.end))

\* eget_mut(1..3) on [10, 40, 30] returned the view [40, 30] at position 1.
C1_Witness ==
    /\ Direct("eget_Range") /\ origin.m
    /\ origin.start = 1 /\ origin.end = 3 /\ arr = <<10, 40, 30>>
    /\ res = Ok([start |-> 1, elems |-> <<40, 30>>])

\* C2: eget(s..e) fails with InvalidRange whenever s > e, whatever n is;
\* otherwise it fails with RangeOutOfBounds(s, e, n) whenever e > n or s = n,
\* and succeeds in every remaining case.  The payload is the caller's s, e and
\* the length n.
C2_RangeFailures ==
    Direct("eget_Range") =>
        LET s == origin.start
            e == origin.end
            n == Len(arr)
        IN IF s > e THEN ~res.ok /\ res.e.ty = InvalidRange
           ELSE IF e > n \/ s = n
                THEN ~res.ok /\ res.e.ty = RangeOutOfBounds(s, e, n)
                ELSE res.ok

\* eget(3..3) on a slice of length 3 failed with RangeOutOfBounds(3, 3, 3).
C2_Witness ==
    /\ Direct("eget_Range")
    /\ origin.start = 3 /\ origin.end = 3 /\ Len(arr) = 3
    /\ ~res.ok /\ res.e.ty = RangeOutOfBounds(3, 3, 3)

\* C3: for all i < n, eget(i) and eget_mut(i) succeed and return the element
\* stored at position i; for all i >= n they fail with IndexOutOfBounds(i, n).
\* The implementations for the slice, the shared reference and the mutable
\* ones give the same outcome for the same i and n.
C3_Index ==
    Direct("eget_usize") =>
        LET i == origin.index
            n == Len(arr)
        IN IF i < n
           THEN res = Ok([pos |-> i, val |-> arr[i + 1]])
           ELSE ~res.ok /\ res.e.ty = IndexOutOfBounds(i, n)

\* eget(3) through the shared reference to a slice of length 3 failed with
\* IndexOutOfBounds(3, 3).
C3_Witness ==
    /\ Direct("eget_usize") /\ origin.impl = "ref" /\ ~origin.m
    /\ origin.index = 3 /\ Len(arr) = 3
    /\ ~res.ok /\ res.e.ty = IndexOutOfBounds(3, 3)

\* C4: eget(s..=e) fails with InvalidRange whenever e is usize::MAX, for every
\* s and n, at the test that precedes the addition (e + 1 is not computed);
\* for every other e its outcome is the outcome of eget(s..e+1): the same
\* view, or the same error kind, payload and trace.
C4_Inclusive ==
    Direct("eget_RangeInclusive") =>
        LET s == origin.start
            e == origin.end
        IN IF e = USIZE_MAX
           THEN res = Err([ty |-> InvalidRange,
                           frames |-> <<IF origin.m THEN here(283, 60)
                                                    ELSE here(261, 60)>>])
           ELSE res = IF origin.m THEN eget_mut_Range(arr, s, e + 1)
                                  ELSE eget_Range(arr, s, e + 1)

\* eget(0..=usize::MAX) on a slice that is not empty failed with InvalidRange.
C4_Witness ==
    /\ Direct("eget_RangeInclusive") /\ ~origin.m
    /\ origin.start = 0 /\ origin.end = USIZE_MAX /\ Len(arr) = 3
    /\ ~res.ok /\ res.e.ty = InvalidRange

\* A step that is a call of loc on the Result in flight.
IsLocStep == Len(sites') = Len(sites) + 1

\* C5: loc on a failure that carries an EzError appends exactly one entry, the
\* given location, at the end of its location sequence, keeps every recorded
\* entry at its position and leaves the error kind unchanged; loc at k nested
\* call sites, innermost first, on a new error yields a sequence of length k
\* in call order.
C5_LocAppends ==
    /\ []((pc # "start" /\ origin.op = "new")
            => (~res.ok /\ res.e.ty = origin.ty /\ res.e.frames = sites))
    /\ [][(IsLocStep /\ ~res.ok) =>
            LET f == res.e.frames
                g == res'.e.frames
            IN /\ ~res'.ok
               /\ res'.e.ty = res.e.ty
               /\ Len(g) = Len(f) + 1
               /\ g[Len(g)] = sites'[Len(sites')]
               /\ \A k \in 1..Len(f) : g[k] = f[k]]_vars

\* loc was applied three times to a new error, at two different call sites:
\* its locations are the three, in call order.
C5_Witness ==
    /\ pc = "run" /\ origin.op = "new" /\ ~res.ok
    /\ Len(sites) = 3 /\ sites[1] # sites[2]
    /\ res.e.frames = sites

\* C6: loc on a success is a no-op for the three input shapes: Ok(v) of the
\* library Result stays Ok(v), Ok(v) of a foreign Result and Some(v) become
\* Ok(v); v is unchanged, no error value is created, no location is recorded.
C6_LocOnSuccess ==
    /\ []((Direct("loc_foreign") /\ origin.arg.ok) => res = Ok(origin.arg.v))
    /\ []((Direct("loc_option") /\ origin.arg.some) => res = Ok(origin.arg.v))
    /\ [][(IsLocStep /\ res.ok) =>
            (res' = res /\ arr' = arr /\ out' = out /\ ret' = ret /\ pc' = pc)]_vars

\* loc was applied to Some(40) and gave Ok(40), and loc on that Ok(40) left it.
C6_Witness ==
    /\ pc = "run" /\ origin.op = "loc_option" /\ origin.arg = Some([val |-> 40])
    /\ Len(sites) = 1
    /\ res = Ok([val |-> 40])

\* C7: loc on a foreign Err(e) gives a failure of kind Internal whose message
\* is the text e renders to, and loc on None a failure of kind NoneOption; in
\* both the location sequence is of length 1, the location passed to loc.
C7_LocNormalizes ==
    /\ (Direct("loc_foreign") /\ ~origin.arg.ok) =>
            (/\ ~res.ok
             /\ res.e.ty = [tag |-> "Internal", msg |-> origin.arg.e.text]
             /\ res.e.frames = <<origin.loc>>)
    /\ (Direct("loc_option") /\ ~origin.arg.some) =>
            (/\ ~res.ok
             /\ res.e.ty = [tag |-> "NoneOption"]
             /\ res.e.frames = <<origin.loc>>)

\* loc on the foreign error that renders to "entity not found" gave an
\* Internal error with that message and one location.
C7_Witness ==
    /\ Direct("loc_foreign") /\ ~origin.arg.ok
    /\ res.e.ty = Internal("entity not found")
    /\ Len(res.e.frames) = 1

\* C8: a.with(b) yields an error whose kind is a's kind and whose location
\* sequence is a's locations followed by b's, each in their order, of length
\* len(a) + len(b).
C8_Merge ==
    (pc # "start" /\ origin.op = "with" /\ sites = <<>>) =>
        LET a == origin.self
            b == origin.other
            f == res.e.frames
        IN /\ ~res.ok
           /\ res.e.ty = a.ty
           /\ a.ty # b.ty
           /\ Len(f) = Len(a.frames) + Len(b.frames)
           /\ \A k \in 1..Len(a.frames) : f[k] = a.frames[k]
           /\ \A k \in 1..Len(b.frames) : f[Len(a.frames) + k] = b.frames[k]

\* An error with the locations [a1, a2] was merged with one with [b1] and has
\* [a1, a2, b1], the three different.
C8_Witness ==
    /\ pc = "run" /\ origin.op = "with" /\ sites = <<>>
    /\ Len(origin.self.frames) = 2 /\ Len(origin.other.frames) = 1
    /\ Cardinality({res.e.frames[k] : k \in 1..3}) = 3
    /\ res.e.frames = <<origin.self.frames[1], origin.self.frames[2],
                        origin.other.frames[1]>>

\* sub occurs in s.
Contains(s, sub) ==
    \E i \in 1..(Len(s) - Len(sub) + 1) : SubSeq(s, i, i + Len(sub) - 1) = sub

\* The lines of s: the texts between its line ends.
Lines(s) ==
    LET nl == {i \in 1..Len(s) : SubSeq(s, i, i) = "\n"}
        nth(k) == CHOOSE p \in nl : Cardinality({q \in nl : q < p}) = k - 1
        n == Cardinality(nl) + 1
    IN [k \in 1..n |->
            SubSeq(s, IF k = 1 THEN 1 ELSE nth(k - 1) + 1,
                      IF k = n THEN Len(s) ELSE nth(k) - 1)]

\* text is an error output for e: it names the kind, has the message, and after
\* the line "Stacktrace:" one line file:line:column per location of e, in order.
IsErrorOutput(text, e) ==
    LET ls == Lines(text)
        at == {i \in 1..Len(ls) : ls[i] = "Stacktrace:"}
    IN /\ Contains(text, name(e.ty))
       /\ Contains(text, format(e.ty))
       /\ Cardinality(at) = 1
       /\ \A i \in at :
            /\ Len(ls) >= i + Len(e.frames)
            /\ \A k \in 1..Len(e.frames) :
                    ls[i + k] = e.frames[k].file \o ":" \o ToString(e.frames[k].line)
                                    \o ":" \o ToString(e.frames[k].column)
            /\ \A j \in (i + Len(e.frames) + 1)..Len(ls) : ls[j] = ""

\* C9: handle on a success returns the contained value, as present, and emits
\* nothing; on a failure it returns an absent result and emits exactly one
\* output with the kind name, the message and one trace line per location in
\* stored order.
C9_Handle ==
    pc = "handled" =>
        IF res.ok
        THEN ret = Some(res.v) /\ out = <<>>
        ELSE ret = None /\ Len(out) = 1 /\ IsErrorOutput(out[1], res.e)

\* handle consumed an error with three locations, not all the same.
C9_Witness ==
    /\ pc = "handled" /\ ~res.ok
    /\ Len(res.e.frames) = 3 /\ res.e.frames[1] # res.e.frames[3]
    /\ ret = None /\ Len(out) = 1

\* C10: handle_or_panic on a success returns the contained value and never
\* panics; on a failure it panics, there is no path that returns, and the
\* error output is in the sink before the panic, exactly once.
C10_HandleOrPanic ==
    /\ [](pc = "returned" => (res.ok /\ ret = res.v /\ out = <<>>))
    /\ [](pc = "panicked" => (~res.ok /\ Len(out) = 1))
    /\ []((pc = "hop" /\ ~res.ok) => (Len(out) = 1 /\ IsErrorOutput(out[1], res.e)))
    /\ [](pc = "hop" => ENABLED HandleOrPanicMatch)
    /\ [][pc = "hop" =>
            IF res.ok THEN pc' \in {"hop", "returned"}
            ELSE pc' \in {"hop", "panicked"} /\ out' = out]_vars

\* handle_or_panic panicked on an IndexOutOfBounds error, its output printed.
C10_Witness ==
    /\ pc = "panicked" /\ ~res.ok /\ res.e.ty.tag = "IndexOutOfBounds"
    /\ Len(out) = 1

\* C11: bail!(..) makes the enclosing operation return at once with a
\* failure of kind Message that carries exactly the formatted text and has
\* exactly one location, the one of the bail invocation; the code after the
\* bail is never reached.
C11_Bail ==
    origin.op = "bail" =>
        /\ pc # "after"
        /\ ~res.ok
        /\ res.e.ty.tag = "Message"
        /\ (origin.args.lit = "bailed" /\ ~origin.args.hasArg)
              => res.e.ty.msg = "bailed"
        /\ (origin.args.lit = "bad index " /\ origin.args.hasArg
              /\ origin.args.arg = 3) => res.e.ty.msg = "bad index 3"
        /\ res.e.ty.msg \in {"bailed", "bad index 3"}
        /\ sites = <<>> => res.e.frames = <<origin.loc>>
C11_Witness ==
    /\ pc = "handled"
    /\ origin.op = "bail"
    /\ sites = <<>>
    /\ res = Err([ty |-> Message("bad index 3"),
                  frames |-> <<flc("src/core.rs", 349, 13)>>])

\* C12: eget(..) and eget_mut(..) succeed on a sequence of every length,
\* the empty one included, and the view is the whole sequence: it starts at
\* position 0 and has every element in order.
C12_FullRange ==
    Direct("eget_RangeFull") =>
        /\ res.ok
        /\ res.v.start = 0
        /\ Len(res.v.elems) = Len(arr)
        /\ \A k \in 1..Len(arr) : res.v.elems[k] = arr[k]
\* eget(..) on the empty sequence returned the empty view, and the program
\* handled it.
C12_Witness ==
    /\ Direct("eget_RangeFull")
    /\ arr = <<>>
    /\ ~origin.m
    /\ res = Ok([start |-> 0, elems |-> <<>>])
    /\ pc = "handled"

\* f is a prefix of g.
IsPrefix(f, g) == Len(f) <= Len(g) /\ \A k \in 1..Len(f) : g[k] = f[k]

\* C13: an error value has no location right after construction, and across
\* every operation on it (loc, merge, ?, the terminal handlers) its kind and
\* payload stay what they were and its location sequence only grows: the
\* sequence before the step is a prefix of the sequence after it.
C13_ErrorInvariants ==
    /\ [](Direct("new") => (~res.ok /\ res.e.frames = <<>> /\ res.e.ty = origin.ty))
    /\ [][(pc # "start" /\ ~res.ok) =>
            /\ ~res'.ok
            /\ res'.e.ty = res.e.ty
            /\ IsPrefix(res.e.frames, res'.e.frames)]_vars
\* The Custom error made by construction was given a location, merged with
\* an error of another kind that had one, and given a location again: it is
\* still the Custom error, and has the three locations in that order.
C13_Witness ==
    /\ pc = "run" /\ origin.op = "with" /\ ~res.ok
    /\ origin.self.ty = Custom(7, "MyError", "custom failure")
    /\ Len(origin.self.frames) = 1 /\ Len(origin.other.frames) = 1
    /\ Len(sites) = 1
    /\ res.e.ty = Custom(7, "MyError", "custom failure")
    /\ res.e.frames = origin.self.frames \o origin.other.frames \o sites

\* What a caller can tell about r apart from its trace: success with its
\* value, or failure with the error's kind, payload and formatted message.
Observable(r) ==
    IF ~IsResult(r) THEN [other |-> r]
    ELSE IF r.ok THEN [ok |-> TRUE, v |-> r.v]
    ELSE [ok |-> FALSE, ty |-> r.e.ty, name |-> name(r.e.ty),
          message |-> format(r.e.ty)]

\* C14: the build with no_stacktrace gives, for every input, what the
\* default build gives apart from the trace: construction, loc on a foreign
\* Result (a foreign Err becomes Internal) and loc on an Option (None becomes
\* NoneOption) have the same success/failure outcome, error kind and
\* formatted message, and handle returns the same and prints the same kind
\* and message.
C14_ToggleKeepsOutcome ==
    /\ Direct("new") => Observable(res) = Observable(Err(EzError_new(origin.ty)))
    /\ Direct("ok") => Observable(res) = Observable(Ok(origin.v))
    /\ Direct("loc_foreign") =>
           \A l \in Locs : Observable(res) = Observable(loc_StdResult(origin.arg, l))
    /\ Direct("loc_option") =>
           \A l \in Locs : Observable(res) = Observable(loc_Option(origin.arg, l))
    /\ pc \in {"handled", "hop"} =>
           LET d == handle(IF res.ok THEN res ELSE Err(EzError_new(res.e.ty)), <<>>)
               headline == "Error " \o name(res.e.ty) \o ": " \o format(res.e.ty)
                             \o "\n\n"
           IN /\ ret = d.ret
              /\ Len(out) = Len(d.sink)
              /\ ~res.ok =>
                    /\ SubSeq(out[1], 1, Len(headline)) = headline
                    /\ SubSeq(d.sink[1], 1, Len(headline)) = headline

\* r is the outcome d with at most one location more: the same view when d
\* is a success, and when d is a failure the same error kind and payload,
\* with d's locations followed by exactly one further location.
SameOutcome(r, d) ==
    IF d.ok
    THEN r = d
    ELSE /\ ~r.ok
         /\ r.e.ty = d.e.ty
         /\ Len(r.e.frames) = Len(d.e.frames) + 1
         /\ IsPrefix(d.e.frames, r.e.frames)

\* C15: for every argument and length, eget(..e) has the outcome of
\* eget(0..e), eget(s..) the outcome of eget(s..n) and eget(..=e) the outcome
\* of eget(0..=e) (the eget_mut forms likewise): the same view on success,
\* the same error kind and payload on failure, the trace one location longer.
C15_OpenEnded ==
    /\ Direct("eget_RangeTo") =>
           SameOutcome(res, IF origin.m THEN eget_mut_Range(arr, 0, origin.end)
                                        ELSE eget_Range(arr, 0, origin.end))
    /\ Direct("eget_RangeFrom") =>
           SameOutcome(res, IF origin.m
                            THEN eget_mut_Range(arr, origin.start, Len(arr))
                            ELSE eget_Range(arr, origin.start, Len(arr)))
    /\ Direct("eget_RangeToInclusive") =>
           SameOutcome(res, IF origin.m
                            THEN eget_mut_RangeInclusive(arr, 0, origin.end)
                            ELSE eget_RangeInclusive(arr, 0, origin.end))
\* eget(..4) on a sequence of three failed with RangeOutOfBounds(0, 4, 3), as
\* eget(0..4) does, and has the location inside the bounded form followed by
\* the adapter's.
C15_Witness ==
    /\ Direct("eget_RangeTo") /\ ~origin.m /\ origin.end = 4 /\ Len(arr) = 3
    /\ res = Err([ty |-> RangeOutOfBounds(0, 4, 3),
                  frames |-> <<here(112, 18), here(176, 37)>>])
    /\ eget_Range(arr, 0, 4) = Err([ty |-> RangeOutOfBounds(0, 4, 3),
                                    frames |-> <<here(112, 18)>>])

\* C16: on the empty sequence every access but the full range fails,
\* whatever its arguments: eget(i), eget(s..e) (0..0 too), eget(..e) (..0
\* too), eget(s..), which fails with RangeOutOfBounds(0, 0, 0) for s = 0 and
\* with InvalidRange for s > 0, eget(s..=e) and eget(..=e); eget(..) succeeds.
C16_Empty ==
    (arr = <<>> /\ pc # "start" /\ sites = <<>>) =>
        /\ origin.op \in {"eget_usize", "eget_Range", "eget_RangeTo",
                          "eget_RangeFrom", "eget_RangeInclusive",
                          "eget_RangeToInclusive"} => ~res.ok
        /\ origin.op = "eget_RangeFrom" =>
               res.e.ty = IF origin.start = 0
                          THEN [tag |-> "RangeOutOfBounds",
                                start |-> 0, end |-> 0, len |-> 0]
                          ELSE [tag |-> "InvalidRange"]
        /\ origin.op = "eget_RangeFull" => res.ok
\* On the empty sequence eget(0..0) failed with RangeOutOfBounds(0, 0, 0).
C16_Witness ==
    /\ arr = <<>> /\ Direct("eget_Range") /\ origin.impl = "slice" /\ ~origin.m
    /\ origin.start = 0 /\ origin.end = 0
    /\ ~res.ok /\ res.e.ty = RangeOutOfBounds(0, 0, 0)

====
